---- MODULE Spec2Model ----
(***************************************************************************)
(* mixcraft: the window/event loop of main.rs driving the Renderer of      *)
(* renderer/mod.rs (and the earlier State of state.rs), over the wrapper   *)
(* types Buffer, Texture and binding Group.                                *)
(*                                                                         *)
(* The graphics device, the surface and the window are external: every     *)
(* call the program makes on them is recorded, in order, as a Call in the  *)
(* variable `calls`, and every answer they give that the program branches  *)
(* on (adapter, device, supported formats, acquisition result, whether a   *)
(* zero-area configuration is refused) is a nondeterministic input.        *)
(***************************************************************************)
EXTENDS Integers, Sequences, FiniteSets, TLC

VARIABLES
    pc,               \* "boot" | "running" | "aborted" | "exited": position of run()
    build,            \* which struct the loop owns: "Renderer" (renderer/mod.rs) or "State" (state.rs)
    window_size,      \* window.inner_size() at start-up
    state,            \* main.rs `state`: None before the constructor returns, Some(struct) after
    control_flow,     \* winit's *control_flow
    redraw_requested, \* window.request_redraw() called and not yet served
    phase,            \* position in one loop iteration: "events" | "redraws"
    event,            \* the event most recently handed to the closure (None before the first)
    invoked,          \* the struct's methods the last step called, in order
    calls,            \* the device/surface/queue/window calls the last step issued, in order
    buffer,           \* wrapper harness: the last Buffer built (None before)
    group,            \* wrapper harness: the last binding group built (None before)
    texture           \* wrapper harness: the last Texture built (None before)

vars == <<pc, build, window_size, state, control_flow, redraw_requested, phase,
          event, invoked, calls, buffer, group, texture>>

appVars == <<pc, build, window_size, state, control_flow, redraw_requested, phase,
             event, invoked, calls>>

----------------------------------------------------------------------------
(* Bounds of the model *)

\* Window and surface dimensions range over 0..MaxDim (u32 in the source; no
\* arithmetic is done on them, so the width only bounds the enumeration).
MaxDim == 2

----------------------------------------------------------------------------
(* Rust values *)

None == <<>>
Some(x) == <<x>>
IsSome(o) == o # <<>>
Unwrap(o) == o[1]

\* A usize of a 64-bit host is written as its two 32-bit halves, the value
\* being hi * 2^32 + lo (TLC's integers end at 2^31 - 1, so the lengths
\* enumerated have lo < 2^31). A u32 is a natural number.
USize(hi, lo) == [hi |-> hi, lo |-> lo]
USizeOf(k) == USize(0, k)

\* `x as u32` on a usize: the low 32 bits.
AsU32(n) == n.lo

\* `x as usize` on a u32: zero-extended.
U32AsUSize(k) == USize(0, k)

\* usize * k, for the factors used here, whose low halves do not carry.
USizeTimes(n, k) == USize(n.hi * k, n.lo * k)

\* NonZeroU32::new
NonZeroU32_new(n) == IF n = 0 THEN None ELSE Some(n)

Dims == 0 .. MaxDim
PhysicalSize == [width : Dims, height : Dims]

\* window.id()
window_id == "window"

\* The value of type ().
Unit == [unit |-> TRUE]

\* A bool as it prints.
Bool(b) == IF b THEN "true" ELSE "false"

\* One call on an external object; `arg` is a record.
Call(op, arg) == [op |-> op, arg |-> arg]

\* The calls of `cs` whose operation is `op`.
CallsOf(cs, op) == SelectSeq(cs, LAMBDA c : c.op = op)

\* The position of the first call `op` in `cs` (0 when there is none).
FirstIndex(cs, op) ==
    IF \E i \in 1 .. Len(cs) : cs[i].op = op
    THEN CHOOSE i \in 1 .. Len(cs) :
            /\ cs[i].op = op
            /\ \A j \in 1 .. (i - 1) : cs[j].op # op
    ELSE 0

----------------------------------------------------------------------------
(* types/buffer.rs and types/mod.rs: Buffer *)

\* A slice &[A]: `len` (a usize) elements of `elem_size` bytes each; `data` holds the
\* elements when the slice is one of the program's constants and is empty
\* for a slice of which only the length is enumerated.
Slice(len, elem_size, data) == [len |-> len, elem_size |-> elem_size, data |-> data]

\* bytemuck::cast_slice to &[u8]: the same bytes, counted in bytes.
cast_slice(s) == Slice(USizeTimes(s.len, s.elem_size), 1, s.data)

\* types/buffer.rs: BufferInitDescriptor::get_raw
BufferInitDescriptor_get_raw(desc) ==
    [label |-> desc.label, usage |-> desc.usage, contents |-> cast_slice(desc.contents)]

\* types/buffer.rs: Buffer::new. Returns the Buffer and the device calls made.
Buffer_new(desc) ==
    LET len == AsU32(desc.contents.len)
        raw == BufferInitDescriptor_get_raw(desc)
    IN  [self  |-> [inner |-> [obj |-> "Buffer", desc |-> raw], len |-> len],
         calls |-> <<Call("device.create_buffer_init", raw)>>]

Buffer_get_inner(self) == self.inner
Buffer_len(self) == self.len
Buffer_is_empty(self) == self.len = 0

\* types/mod.rs: BufferInitDescriptor::into_wgpu_descriptor
types_BufferInitDescriptor_into_wgpu_descriptor(desc) ==
    [label |-> desc.label, usage |-> desc.usage, contents |-> cast_slice(desc.contents)]

\* types/mod.rs: Buffer::new (the descriptor is taken by value)
types_Buffer_new(desc) ==
    LET len == AsU32(desc.contents.len)
        raw == types_BufferInitDescriptor_into_wgpu_descriptor(desc)
    IN  [self  |-> [inner |-> [obj |-> "Buffer", desc |-> raw], len |-> len],
         calls |-> <<Call("device.create_buffer_init", raw)>>]

types_Buffer_get_inner(self) == self.inner
types_Buffer_len(self) == self.len
types_Buffer_is_empty(self) == self.len = 0

----------------------------------------------------------------------------
(* renderer/types/binding/group.rs, renderer/types/bind_group.rs and       *)
(* types/bind_group.rs: binding groups                                     *)

\* wgpu::BindingResource: `kind` is the variant, `len` the length of the
\* array (a usize) for the three array variants (unused for the others), `id` the
\* resource handle(s) bound.
ArrayKinds == {"BufferArray", "SamplerArray", "TextureViewArray"}
BindingResource(kind, len, id) == [kind |-> kind, len |-> len, id |-> id]

\* format!("{x}_layout") under Option::map
LayoutLabel(label) == IF IsSome(label) THEN Some(Unwrap(label) \o "_layout") ELSE None

\* Iterator::unzip over a sequence of pairs
Unzip(pairs) ==
    <<[i \in 1 .. Len(pairs) |-> pairs[i][1]], [i \in 1 .. Len(pairs) |-> pairs[i][2]]>>

\* A faulty into_entry, to test C10: every layout entry is made visible to
\* the fragment stage whatever the entry asked for.
into_entry_fragment_only(self) ==
    LET layout_entry ==
            [binding    |-> self.binding,
             visibility |-> "FRAGMENT",
             ty         |-> self.ty,
             count      |-> IF self.resource.kind \in ArrayKinds
                            THEN NonZeroU32_new(AsU32(self.resource.len))
                            ELSE None]
        bind_entry == [binding |-> self.binding, resource |-> self.resource]
    IN  <<layout_entry, bind_entry>>

\* binding/group.rs: Entry::into_entry
into_entry(self) ==
    LET layout_entry ==
            [binding    |-> self.binding,
             visibility |-> self.visibility,
             ty         |-> self.ty,
             count      |-> IF self.resource.kind \in ArrayKinds
                            THEN NonZeroU32_new(AsU32(self.resource.len))
                            ELSE None]
        bind_entry == [binding |-> self.binding, resource |-> self.resource]
    IN  <<layout_entry, bind_entry>>

\* A faulty Group::new, to test C18: it builds the bind group first, against
\* a layout of its own, and keeps another layout to hand out.
Group_new_two_layouts(label, resources) ==
    LET entries == Unzip([i \in 1 .. Len(resources) |-> into_entry(resources[i])])
        layout_entries == entries[1]
        bind_entries == entries[2]
        own_desc == [label |-> None, entries |-> layout_entries]
        own == [obj |-> "BindGroupLayout", desc |-> own_desc]
        layout_desc == [label |-> LayoutLabel(label), entries |-> layout_entries]
        layout == [obj |-> "BindGroupLayout", desc |-> layout_desc]
        inner_desc == [label |-> label, layout |-> own, entries |-> bind_entries]
        inner == [obj |-> "BindGroup", desc |-> inner_desc]
    IN  [self  |-> [inner |-> inner, layout |-> layout],
         calls |-> <<Call("device.create_bind_group_layout", own_desc),
                     Call("device.create_bind_group", inner_desc),
                     Call("device.create_bind_group_layout", layout_desc)>>]

\* binding/group.rs: Group::new
Group_new(label, resources) ==
    LET entries == Unzip([i \in 1 .. Len(resources) |-> into_entry(resources[i])])
        layout_entries == entries[1]
        bind_entries == entries[2]
        layout_desc == [label |-> LayoutLabel(label), entries |-> layout_entries]
        layout == [obj |-> "BindGroupLayout", desc |-> layout_desc]
        inner_desc == [label |-> label, layout |-> layout, entries |-> bind_entries]
        inner == [obj |-> "BindGroup", desc |-> inner_desc]
    IN  [self  |-> [inner |-> inner, layout |-> layout],
         calls |-> <<Call("device.create_bind_group_layout", layout_desc),
                     Call("device.create_bind_group", inner_desc)>>]

Group_inner(self) == self.inner
Group_layout(self) == self.layout

\* renderer/types/bind_group.rs: BindingResource::into_entries
BindingResource_into_entries(self) ==
    LET layout_entry ==
            [binding    |-> self.binding,
             visibility |-> self.visibility,
             ty         |-> self.ty,
             count      |-> IF self.resource.kind \in ArrayKinds
                            THEN NonZeroU32_new(AsU32(self.resource.len))
                            ELSE None]
        bind_entry == [binding |-> self.binding, resource |-> self.resource]
    IN  <<layout_entry, bind_entry>>

\* renderer/types/bind_group.rs: BindGroupDescriptor::new
BindGroupDescriptor_new(label, resources) ==
    LET entries ==
            Unzip([i \in 1 .. Len(resources) |-> BindingResource_into_entries(resources[i])])
    IN  [layout_label   |-> LayoutLabel(label),
         layout_entries |-> entries[1],
         bind_label     |-> label,
         bind_entries   |-> entries[2]]

\* renderer/types/bind_group.rs: BindGroupDescriptor::as_layout_descriptor
BindGroupDescriptor_as_layout_descriptor(self) ==
    [label |-> self.layout_label, entries |-> self.layout_entries]

\* renderer/types/bind_group.rs: BindGroup::with_layout
BindGroup_with_layout(layout, label, entries) ==
    LET inner_desc == [label |-> label, layout |-> layout, entries |-> entries]
    IN  [self  |-> [inner |-> [obj |-> "BindGroup", desc |-> inner_desc], layout |-> layout],
         calls |-> <<Call("device.create_bind_group", inner_desc)>>]

\* renderer/types/bind_group.rs: BindGroup::new
BindGroup_new(desc) ==
    LET layout_desc == BindGroupDescriptor_as_layout_descriptor(desc)
        layout == [obj |-> "BindGroupLayout", desc |-> layout_desc]
        made == BindGroup_with_layout(layout, desc.bind_label, desc.bind_entries)
    IN  [self  |-> made.self,
         calls |-> <<Call("device.create_bind_group_layout", layout_desc)>> \o made.calls]

\* types/bind_group.rs: BindingResource::into_entries
types_BindingResource_into_entries(self) ==
    LET layout_entry ==
            [binding    |-> self.binding,
             visibility |-> self.visibility,
             ty         |-> self.ty,
             count      |-> IF self.resource.kind \in ArrayKinds
                            THEN NonZeroU32_new(AsU32(self.resource.len))
                            ELSE None]
        bind_entry == [binding |-> self.binding, resource |-> self.resource]
    IN  <<layout_entry, bind_entry>>

\* types/bind_group.rs: BindGroupDescriptor::new
types_BindGroupDescriptor_new(label, resources) ==
    LET entries ==
            Unzip([i \in 1 .. Len(resources) |-> types_BindingResource_into_entries(resources[i])])
    IN  [layout_label   |-> LayoutLabel(label),
         layout_entries |-> entries[1],
         bind_label     |-> label,
         bind_entries   |-> entries[2]]

\* types/bind_group.rs: BindGroup::new
types_BindGroup_new(desc) ==
    LET layout_desc == [label |-> desc.layout_label, entries |-> desc.layout_entries]
        layout == [obj |-> "BindGroupLayout", desc |-> layout_desc]
        inner_desc == [label |-> desc.bind_label, layout |-> layout, entries |-> desc.bind_entries]
    IN  [self  |-> [layout |-> layout, inner |-> [obj |-> "BindGroup", desc |-> inner_desc]],
         calls |-> <<Call("device.create_bind_group_layout", layout_desc),
                     Call("device.create_bind_group", inner_desc)>>]

----------------------------------------------------------------------------
(* renderer/types/texture.rs: Texture *)

\* image::DynamicImage: its dimensions and the bytes of one pixel (as_bytes
\* is the decoded buffer as it is, width * height * channels bytes).
Image(width, height, channels) == [width |-> width, height |-> height, channels |-> channels]
Image_as_bytes(image) ==
    Slice(USizeOf(image.width * image.height * image.channels), 1, <<>>)

\* TextureDescriptor::size
TextureDescriptor_size(self) ==
    [width |-> self.image.width, height |-> self.image.height, depth_or_array_layers |-> 1]

\* TextureDescriptor::as_raw
TextureDescriptor_as_raw(self) ==
    [label           |-> self.label,
     mip_level_count |-> self.mip_level_count,
     sample_count    |-> self.sample_count,
     dimension       |-> "D2",
     format          |-> "Rgba8UnormSrgb",
     usage           |-> {"TEXTURE_BINDING", "COPY_DST"},
     size            |-> TextureDescriptor_size(self)]

DefaultSampler ==
    [address_mode_u |-> "Repeat", address_mode_v |-> "Repeat", address_mode_w |-> "Repeat",
     mag_filter |-> "Nearest", min_filter |-> "Nearest", mipmap_filter |-> "Nearest"]

\* Texture::new
Texture_new(desc, sampler_desc) ==
    LET raw == TextureDescriptor_as_raw(desc)
        inner == [obj |-> "Texture", desc |-> raw]
        size == TextureDescriptor_size(desc)
        write == [texture   |-> inner,
                  mip_level |-> 0,
                  origin    |-> <<0, 0, 0>>,
                  aspect    |-> "All",
                  data      |-> Image_as_bytes(desc.image),
                  layout    |-> [offset         |-> 0,
                                 bytes_per_row  |-> NonZeroU32_new(4 * size.width),
                                 rows_per_image |-> NonZeroU32_new(size.height)],
                  size      |-> size]
        view == [obj |-> "TextureView", of |-> raw.label]
        sdesc == IF IsSome(sampler_desc) THEN Unwrap(sampler_desc) ELSE DefaultSampler
        sampler == [obj |-> "Sampler", desc |-> sdesc]
    IN  [self  |-> [inner |-> inner, view |-> view, sampler |-> sampler],
         calls |-> <<Call("device.create_texture", raw),
                     Call("queue.write_texture", write),
                     Call("texture.create_view", [texture |-> raw.label]),
                     Call("device.create_sampler", sdesc)>>]

Texture_view(self) == self.view
Texture_sampler(self) == self.sampler


----------------------------------------------------------------------------
(* types/texture.rs: Texture (the descriptor carries the usage) *)

\* TextureDescriptor::get_size
types_TextureDescriptor_get_size(self) ==
    [width |-> self.image.width, height |-> self.image.height, depth_or_array_layers |-> 1]

\* TextureDescriptor::get_data
types_TextureDescriptor_get_data(self) == Image_as_bytes(self.image)

\* TextureDescriptor::get_raw
types_TextureDescriptor_get_raw(self) ==
    [label           |-> self.label,
     mip_level_count |-> self.mip_level_count,
     sample_count    |-> self.sample_count,
     dimension       |-> "D2",
     format          |-> "Rgba8UnormSrgb",
     usage           |-> self.usage,
     size            |-> types_TextureDescriptor_get_size(self)]

\* Texture::new
types_Texture_new(desc, sampler_desc) ==
    LET raw == types_TextureDescriptor_get_raw(desc)
        inner == [obj |-> "Texture", desc |-> raw]
        size == types_TextureDescriptor_get_size(desc)
        write == [texture   |-> inner,
                  mip_level |-> 0,
                  origin    |-> <<0, 0, 0>>,
                  aspect    |-> "All",
                  data      |-> types_TextureDescriptor_get_data(desc),
                  layout    |-> [offset         |-> 0,
                                 bytes_per_row  |-> NonZeroU32_new(4 * size.width),
                                 rows_per_image |-> NonZeroU32_new(size.height)],
                  size      |-> size]
        view == [obj |-> "TextureView", of |-> raw.label]
        sdesc == IF IsSome(sampler_desc) THEN Unwrap(sampler_desc) ELSE DefaultSampler
        sampler == [obj |-> "Sampler", desc |-> sdesc]
    IN  [self  |-> [inner |-> inner, view |-> view, sampler |-> sampler],
         calls |-> <<Call("device.create_texture", raw),
                     Call("queue.write_texture", write),
                     Call("texture.create_view", [texture |-> raw.label]),
                     Call("device.create_sampler", sdesc)>>]

types_Texture_get_view(self) == self.view
types_Texture_get_sampler(self) == self.sampler

----------------------------------------------------------------------------
(* types/mod.rs: Vertex (the vertex of state.rs) *)

\* size_of::<f32>()
F32 == 4

\* #[repr(C)] struct Vertex { position: [f32; 3], color: [f32; 4] }
types_Vertex_fields == <<[name |-> "position", floats |-> 3], [name |-> "color", floats |-> 4]>>
types_Vertex_size == F32 * (types_Vertex_fields[1].floats + types_Vertex_fields[2].floats)

\* wgpu::vertex_attr_array![0 => Float32x3, 1 => Float32x3]: the offsets
\* accumulate the sizes of the formats listed.
types_Vertex_ATTRS ==
    <<[shader_location |-> 0, format |-> "Float32x3", offset |-> 0],
      [shader_location |-> 1, format |-> "Float32x3", offset |-> 3 * F32]>>

\* Vertex::buffer_layout
types_Vertex_buffer_layout ==
    [array_stride |-> types_Vertex_size, step_mode |-> "Vertex", attributes |-> types_Vertex_ATTRS]

(* renderer/types/mod.rs is not among the files: its Vertex is known from   *)
(* the literals of Renderer::get_data (position: [f32; 3], texture:        *)
(* [f32; 2]) and its BUFFER_LAYOUT from the description of the pipeline.   *)
Vertex_size == F32 * (3 + 2)
Vertex_BUFFER_LAYOUT ==
    [array_stride |-> Vertex_size,
     step_mode    |-> "Vertex",
     attributes   |-> <<[shader_location |-> 0, format |-> "Float32x3", offset |-> 0],
                        [shader_location |-> 1, format |-> "Float32x2", offset |-> 3 * F32]>>]

----------------------------------------------------------------------------
(* renderer/mod.rs: Renderer *)

\* Floating-point literals are written in hundredths (0.09 is 9, 1.00 is 100).
CLEAR_COLOR == [r |-> 9, g |-> 3, b |-> 1, a |-> 100]

\* Renderer::get_data: VERTICES
VERTICES ==
    <<[position |-> <<50, 50, 0>>,   texture |-> <<100, 100>>],
      [position |-> <<-50, 50, 0>>,  texture |-> <<-100, 100>>],
      [position |-> <<-50, -50, 0>>, texture |-> <<-100, -100>>],
      [position |-> <<50, -50, 0>>,  texture |-> <<100, -100>>]>>

\* Renderer::get_data: INDICES (u16)
INDICES == <<0, 1, 2, 0, 2, 3>>

\* Renderer::get_data
get_data ==
    LET vbo == Buffer_new([label    |-> Some("Vertex Buffer"),
                           usage    |-> "VERTEX",
                           contents |-> Slice(USizeOf(Len(VERTICES)), Vertex_size, VERTICES)])
        ibo == Buffer_new([label    |-> Some("Index Buffer"),
                           usage    |-> "INDEX",
                           contents |-> Slice(USizeOf(Len(INDICES)), 2, INDICES)])
    IN  [vbo |-> vbo.self, ibo |-> ibo.self, calls |-> vbo.calls \o ibo.calls]

\* Renderer::create_pipeline
create_pipeline(config, bind_group_layouts) ==
    LET shader == [obj |-> "ShaderModule", source |-> "res/shaders/shader.wgsl"]
        layout_desc == [label                |-> Some("Render Pipeline Layout"),
                        bind_group_layouts   |-> bind_group_layouts,
                        push_constant_ranges |-> <<>>]
        render_pipeline_layout == [obj |-> "PipelineLayout", desc |-> layout_desc]
        desc == [label         |-> Some("Render Pipeline"),
                 layout        |-> Some(render_pipeline_layout),
                 vertex        |-> [module |-> shader, entry_point |-> "vs_main",
                                    buffers |-> <<Vertex_BUFFER_LAYOUT>>],
                 fragment      |-> Some([module |-> shader, entry_point |-> "fs_main",
                                         targets |-> <<Some([format     |-> config.format,
                                                             blend      |-> Some("REPLACE"),
                                                             write_mask |-> "ALL"])>>]),
                 primitive     |-> [topology |-> "TriangleList", strip_index_format |-> None,
                                    front_face |-> "Ccw", cull_mode |-> Some("Back"),
                                    polygon_mode |-> "Fill", unclipped_depth |-> FALSE,
                                    conservative |-> FALSE],
                 depth_stencil |-> None,
                 multisample   |-> [count |-> 1, alpha_to_coverage_enabled |-> FALSE],
                 multiview     |-> None]
    IN  [self  |-> [obj |-> "RenderPipeline", desc |-> desc],
         calls |-> <<Call("device.create_shader_module", shader),
                     Call("device.create_pipeline_layout", layout_desc),
                     Call("device.create_render_pipeline", desc)>>]

\* What a constructor hands back: the struct, or a panic (an unwrap of
\* None/Err, an index out of range, a refusal inside a wgpu call) after
\* which the process is gone. `calls` are the calls made up to that point.
Built(self, cs) == [panicked |-> FALSE, self |-> Some(self), calls |-> cs]
Panicked(cs) == [panicked |-> TRUE, self |-> None, calls |-> cs]

\* A faulty Renderer::new, to test C19: it asks for an adapter a second time.
Renderer_new_retries(size, adapter, device, formats, image, zero_area) ==
    LET c1 == <<Call("instance.create_surface", [window |-> window_id]),
                Call("instance.request_adapter", [power_preference |-> "HighPerformance"]),
                Call("instance.request_adapter", [power_preference |-> "LowPower"])>>
        c2 == c1 \o <<Call("adapter.request_device", [label |-> Some("Some Device")])>>
        c3 == c2 \o <<Call("surface.get_supported_formats", Unit)>>
    IN  IF ~adapter THEN Panicked(c1)
        ELSE IF ~device THEN Panicked(c2)
        ELSE IF Len(formats) = 0 THEN Panicked(c3)
        ELSE
          LET config == [usage        |-> "RENDER_ATTACHMENT",
                         format       |-> formats[1],
                         width        |-> size.width,
                         height       |-> size.height,
                         present_mode |-> "Fifo"]
              c4 == c3 \o <<Call("surface.configure", config)>>
          IN  IF (config.width = 0 \/ config.height = 0) /\ zero_area = "refused"
              THEN Panicked(c4)
              ELSE
                LET diffuse_texture ==
                        Texture_new([label           |-> Some("dirt_texture"),
                                     mip_level_count |-> 1,
                                     sample_count    |-> 1,
                                     image           |-> image], None)
                    diffuse_bind_group ==
                        Group_new(Some("diffuse_texture_group"),
                            <<[binding    |-> 0,
                               visibility |-> "FRAGMENT",
                               ty         |-> "Texture",
                               resource   |-> BindingResource("TextureView", USizeOf(0),
                                                 Texture_view(diffuse_texture.self))],
                              [binding    |-> 1,
                               visibility |-> "FRAGMENT",
                               ty         |-> "Sampler",
                               resource   |-> BindingResource("Sampler", USizeOf(0),
                                                 Texture_sampler(diffuse_texture.self))]>>)
                    render_pipeline ==
                        create_pipeline(config, <<Group_layout(diffuse_bind_group.self)>>)
                    data == get_data
                IN  Built([config             |-> config,
                           size               |-> size,
                           render_pipeline    |-> render_pipeline.self,
                           vbo                |-> data.vbo,
                           ibo                |-> data.ibo,
                           diffuse_bind_group |-> diffuse_bind_group.self],
                          c4 \o diffuse_texture.calls \o diffuse_bind_group.calls
                             \o render_pipeline.calls \o data.calls)

\* Renderer::new.
\*   size:      window.inner_size()
\*   adapter:   whether request_adapter yields Some
\*   device:    whether request_device yields Ok
\*   formats:   surface.get_supported_formats(&adapter)
\*   image:     the decoded res/textures/dirt.png
\*   zero_area: what surface.configure does with a configuration of zero
\*              width or height, "refused" (it panics) or "accepted"; which
\*              of the two depends on the wgpu version and backend.
Renderer_new(size, adapter, device, formats, image, zero_area) ==
    LET c1 == <<Call("instance.create_surface", [window |-> window_id]),
                Call("instance.request_adapter", [power_preference |-> "HighPerformance"])>>
        c2 == c1 \o <<Call("adapter.request_device", [label |-> Some("Some Device")])>>
        c3 == c2 \o <<Call("surface.get_supported_formats", Unit)>>
    IN  IF ~adapter THEN Panicked(c1)
        ELSE IF ~device THEN Panicked(c2)
        ELSE IF Len(formats) = 0 THEN Panicked(c3)
        ELSE
          LET config == [usage        |-> "RENDER_ATTACHMENT",
                         format       |-> formats[1],
                         width        |-> size.width,
                         height       |-> size.height,
                         present_mode |-> "Fifo"]
              c4 == c3 \o <<Call("surface.configure", config)>>
          IN  IF (config.width = 0 \/ config.height = 0) /\ zero_area = "refused"
              THEN Panicked(c4)
              ELSE
                LET diffuse_texture ==
                        Texture_new([label           |-> Some("dirt_texture"),
                                     mip_level_count |-> 1,
                                     sample_count    |-> 1,
                                     image           |-> image], None)
                    diffuse_bind_group ==
                        Group_new(Some("diffuse_texture_group"),
                            <<[binding    |-> 0,
                               visibility |-> "FRAGMENT",
                               ty         |-> "Texture",
                               resource   |-> BindingResource("TextureView", USizeOf(0),
                                                 Texture_view(diffuse_texture.self))],
                              [binding    |-> 1,
                               visibility |-> "FRAGMENT",
                               ty         |-> "Sampler",
                               resource   |-> BindingResource("Sampler", USizeOf(0),
                                                 Texture_sampler(diffuse_texture.self))]>>)
                    render_pipeline ==
                        create_pipeline(config, <<Group_layout(diffuse_bind_group.self)>>)
                    data == get_data
                IN  Built([config             |-> config,
                           size               |-> size,
                           render_pipeline    |-> render_pipeline.self,
                           vbo                |-> data.vbo,
                           ibo                |-> data.ibo,
                           diffuse_bind_group |-> diffuse_bind_group.self],
                          c4 \o diffuse_texture.calls \o diffuse_bind_group.calls
                             \o render_pipeline.calls \o data.calls)

\* A faulty resize, to test C1: it stores the size and configures the
\* surface but forgets to store the configuration.
resize_forgets_config(self, new) ==
    IF new.width > 0 /\ new.height > 0
    THEN LET config == [self.config EXCEPT !.width = new.width, !.height = new.height]
         IN  [self  |-> [self EXCEPT !.size = new],
              calls |-> <<Call("surface.configure", config)>>]
    ELSE [self |-> self, calls |-> <<>>]

\* A faulty resize, to test C2: one positive dimension is enough for it.
resize_either_positive(self, new) ==
    IF new.width > 0 \/ new.height > 0
    THEN LET config == [self.config EXCEPT !.width = new.width, !.height = new.height]
         IN  [self  |-> [self EXCEPT !.size = new, !.config = config],
              calls |-> <<Call("surface.configure", config)>>]
    ELSE [self |-> self, calls |-> <<>>]

\* A faulty resize, to test C17: it takes the width for the height and the
\* height for the width.
resize_transposed(self, new) ==
    IF new.width > 0 /\ new.height > 0
    THEN LET config == [self.config EXCEPT !.width = new.height, !.height = new.width]
         IN  [self  |-> [self EXCEPT !.size = [width |-> new.height, height |-> new.width],
                                     !.config = config],
              calls |-> <<Call("surface.configure", config)>>]
    ELSE [self |-> self, calls |-> <<>>]

\* A faulty resize, to test C20: it reconfigures the surface for Mailbox
\* presentation.
resize_sets_mailbox(self, new) ==
    IF new.width > 0 /\ new.height > 0
    THEN LET config == [self.config EXCEPT !.width = new.width, !.height = new.height,
                                           !.present_mode = "Mailbox"]
         IN  [self  |-> [self EXCEPT !.size = new, !.config = config],
              calls |-> <<Call("surface.configure", config)>>]
    ELSE [self |-> self, calls |-> <<>>]

\* Renderer::resize. Returns the struct after the call and the calls made.
resize(self, new) ==
    IF new.width > 0 /\ new.height > 0
    THEN LET config == [self.config EXCEPT !.width = new.width, !.height = new.height]
         IN  [self  |-> [self EXCEPT !.size = new, !.config = config],
              calls |-> <<Call("surface.configure", config)>>]
    ELSE [self |-> self, calls |-> <<>>]

\* A faulty input, to test C15: it claims the keyboard events.
input_handles_keys(self, ev) == [self |-> self, ret |-> ev.kind = "KeyboardInput", calls |-> <<>>]

\* Renderer::input
input(self, ev) == [self |-> self, ret |-> FALSE, calls |-> <<>>]

\* Renderer::update
update(self) == [self |-> self, calls |-> <<>>]

\* wgpu::SurfaceError, and "Ok" for a surface texture acquired.
SurfaceError == {"Timeout", "Outdated", "Lost", "OutOfMemory"}
Acquired == {"Ok"} \cup SurfaceError

\* A faulty render, to test C4: it draws as many indices as there are
\* vertices.
render_counts_vertices(self, acquired) ==
    LET get == <<Call("surface.get_current_texture", [result |-> acquired])>>
    IN  IF acquired # "Ok"
        THEN [self |-> self, ret |-> acquired, calls |-> get]
        ELSE [self  |-> self,
              ret   |-> "Ok",
              calls |-> get \o
                <<Call("texture.create_view", [texture |-> Some("output")]),
                  Call("device.create_command_encoder", [label |-> Some("Render Encoder")]),
                  Call("encoder.begin_render_pass",
                       [label |-> "Render Pass", load |-> CLEAR_COLOR, store |-> TRUE]),
                  Call("render_pass.set_pipeline", self.render_pipeline),
                  Call("render_pass.set_bind_group",
                       [index |-> 0, group |-> Group_inner(self.diffuse_bind_group)]),
                  Call("render_pass.set_vertex_buffer",
                       [slot |-> 0, buffer |-> Buffer_get_inner(self.vbo)]),
                  Call("render_pass.set_index_buffer",
                       [buffer |-> Buffer_get_inner(self.ibo), format |-> "Uint16"]),
                  Call("render_pass.draw_indexed",
                       [indices     |-> <<0, Buffer_len(self.vbo)>>,
                        base_vertex |-> 0,
                        instances   |-> <<0, 1>>]),
                  Call("render_pass.drop", Unit),
                  Call("encoder.finish", Unit),
                  Call("queue.submit", [command_buffers |-> <<"Render Encoder">>]),
                  Call("output.present", Unit)>>]

\* A faulty render, to test C5: it creates the encoder before it acquires
\* the image, and submits what it has when the acquisition fails.
render_encodes_first(self, acquired) ==
    LET encoder == <<Call("device.create_command_encoder",
                          [label |-> Some("Render Encoder")])>>
        get == <<Call("surface.get_current_texture", [result |-> acquired])>>
    IN  IF acquired # "Ok"
        THEN [self  |-> self,
              ret   |-> acquired,
              calls |-> encoder \o get \o
                <<Call("encoder.finish", Unit),
                  Call("queue.submit", [command_buffers |-> <<"Render Encoder">>])>>]
        ELSE [self  |-> self,
              ret   |-> "Ok",
              calls |-> encoder \o get \o
                <<Call("texture.create_view", [texture |-> Some("output")]),
                  Call("encoder.begin_render_pass",
                       [label |-> "Render Pass", load |-> CLEAR_COLOR, store |-> TRUE]),
                  Call("render_pass.set_pipeline", self.render_pipeline),
                  Call("render_pass.set_bind_group",
                       [index |-> 0, group |-> Group_inner(self.diffuse_bind_group)]),
                  Call("render_pass.set_vertex_buffer",
                       [slot |-> 0, buffer |-> Buffer_get_inner(self.vbo)]),
                  Call("render_pass.set_index_buffer",
                       [buffer |-> Buffer_get_inner(self.ibo), format |-> "Uint16"]),
                  Call("render_pass.draw_indexed",
                       [indices     |-> <<0, Buffer_len(self.ibo)>>,
                        base_vertex |-> 0,
                        instances   |-> <<0, 1>>]),
                  Call("render_pass.drop", Unit),
                  Call("encoder.finish", Unit),
                  Call("queue.submit", [command_buffers |-> <<"Render Encoder">>]),
                  Call("output.present", Unit)>>]

\* Renderer::render. `acquired` is what surface.get_current_texture() gives.
render(self, acquired) ==
    LET get == <<Call("surface.get_current_texture", [result |-> acquired])>>
    IN  IF acquired # "Ok"
        THEN [self |-> self, ret |-> acquired, calls |-> get]
        ELSE [self  |-> self,
              ret   |-> "Ok",
              calls |-> get \o
                <<Call("texture.create_view", [texture |-> Some("output")]),
                  Call("device.create_command_encoder", [label |-> Some("Render Encoder")]),
                  Call("encoder.begin_render_pass",
                       [label |-> "Render Pass", load |-> CLEAR_COLOR, store |-> TRUE]),
                  Call("render_pass.set_pipeline", self.render_pipeline),
                  Call("render_pass.set_bind_group",
                       [index |-> 0, group |-> Group_inner(self.diffuse_bind_group)]),
                  Call("render_pass.set_vertex_buffer",
                       [slot |-> 0, buffer |-> Buffer_get_inner(self.vbo)]),
                  Call("render_pass.set_index_buffer",
                       [buffer |-> Buffer_get_inner(self.ibo), format |-> "Uint16"]),
                  Call("render_pass.draw_indexed",
                       [indices     |-> <<0, Buffer_len(self.ibo)>>,
                        base_vertex |-> 0,
                        instances   |-> <<0, 1>>]),
                  Call("render_pass.drop", Unit),
                  Call("encoder.finish", Unit),
                  Call("queue.submit", [command_buffers |-> <<"Render Encoder">>]),
                  Call("output.present", Unit)>>]


----------------------------------------------------------------------------
(* state.rs: State, the struct before the renderer module; it has no bind  *)
(* group and draws a coloured quad.                                        *)

\* State::get_data: VERTICES
State_VERTICES ==
    <<[position |-> <<50, 50, 0>>,   color |-> <<9, 30, 5, 100>>],
      [position |-> <<-50, 50, 0>>,  color |-> <<9, 30, 5, 100>>],
      [position |-> <<-50, -50, 0>>, color |-> <<9, 30, 5, 100>>],
      [position |-> <<50, -50, 0>>,  color |-> <<9, 30, 5, 100>>]>>

\* State::get_data: INDICES (u16)
State_INDICES == <<0, 1, 2, 0, 2, 3>>

\* State::get_data
State_get_data ==
    LET vbo == types_Buffer_new([label    |-> Some("Vertex Buffer"),
                                 usage    |-> "VERTEX",
                                 contents |-> Slice(USizeOf(Len(State_VERTICES)), types_Vertex_size,
                                                    State_VERTICES)])
        ibo == types_Buffer_new([label    |-> Some("Index Buffer"),
                                 usage    |-> "INDEX",
                                 contents |-> Slice(USizeOf(Len(State_INDICES)), 2, State_INDICES)])
    IN  [vbo |-> vbo.self, ibo |-> ibo.self, calls |-> vbo.calls \o ibo.calls]

\* State::create_pipeline
State_create_pipeline(config) ==
    LET shader == [obj |-> "ShaderModule", source |-> "res/shaders/shader.wgsl"]
        layout_desc == [label                |-> Some("Render Pipeline Layout"),
                        bind_group_layouts   |-> <<>>,
                        push_constant_ranges |-> <<>>]
        render_pipeline_layout == [obj |-> "PipelineLayout", desc |-> layout_desc]
        desc == [label         |-> Some("Render Pipeline"),
                 layout        |-> Some(render_pipeline_layout),
                 vertex        |-> [module |-> shader, entry_point |-> "vs_main",
                                    buffers |-> <<types_Vertex_buffer_layout>>],
                 fragment      |-> Some([module |-> shader, entry_point |-> "fs_main",
                                         targets |-> <<[format     |-> config.format,
                                                        blend      |-> Some("REPLACE"),
                                                        write_mask |-> "ALL"]>>]),
                 primitive     |-> [topology |-> "TriangleList", strip_index_format |-> None,
                                    front_face |-> "Ccw", cull_mode |-> Some("Back"),
                                    polygon_mode |-> "Fill", unclipped_depth |-> FALSE,
                                    conservative |-> FALSE],
                 depth_stencil |-> None,
                 multisample   |-> [count |-> 1, alpha_to_coverage_enabled |-> FALSE],
                 multiview     |-> None]
    IN  [self  |-> [obj |-> "RenderPipeline", desc |-> desc],
         calls |-> <<Call("device.create_shader_module", shader),
                     Call("device.create_pipeline_layout", layout_desc),
                     Call("device.create_render_pipeline", desc)>>]

\* State::new. `preferred` is surface.get_preferred_format(&adapter), an
\* Option; the other parameters are those of Renderer_new.
State_new(size, adapter, device, preferred, zero_area) ==
    LET c1 == <<Call("instance.create_surface", [window |-> window_id]),
                Call("instance.request_adapter", [power_preference |-> "HighPerformance"])>>
        c2 == c1 \o <<Call("adapter.request_device", [label |-> Some("Some Device")])>>
        c3 == c2 \o <<Call("surface.get_preferred_format", Unit)>>
    IN  IF ~adapter THEN Panicked(c1)
        ELSE IF ~device THEN Panicked(c2)
        ELSE IF ~IsSome(preferred) THEN Panicked(c3)
        ELSE
          LET config == [usage        |-> "RENDER_ATTACHMENT",
                         format       |-> Unwrap(preferred),
                         width        |-> size.width,
                         height       |-> size.height,
                         present_mode |-> "Fifo"]
              c4 == c3 \o <<Call("surface.configure", config)>>
          IN  IF (config.width = 0 \/ config.height = 0) /\ zero_area = "refused"
              THEN Panicked(c4)
              ELSE
                LET render_pipeline == State_create_pipeline(config)
                    data == State_get_data
                IN  Built([config          |-> config,
                           size            |-> size,
                           render_pipeline |-> render_pipeline.self,
                           vbo             |-> data.vbo,
                           ibo             |-> data.ibo],
                          c4 \o render_pipeline.calls \o data.calls)

\* State::resize
State_resize(self, new) ==
    IF new.width > 0 /\ new.height > 0
    THEN LET config == [self.config EXCEPT !.width = new.width, !.height = new.height]
         IN  [self  |-> [self EXCEPT !.size = new, !.config = config],
              calls |-> <<Call("surface.configure", config)>>]
    ELSE [self |-> self, calls |-> <<>>]

\* State::input
State_input(self, ev) == [self |-> self, ret |-> FALSE, calls |-> <<>>]

\* State::update
State_update(self) == [self |-> self, calls |-> <<>>]

\* State::render
State_render(self, acquired) ==
    LET get == <<Call("surface.get_current_texture", [result |-> acquired])>>
    IN  IF acquired # "Ok"
        THEN [self |-> self, ret |-> acquired, calls |-> get]
        ELSE [self  |-> self,
              ret   |-> "Ok",
              calls |-> get \o
                <<Call("texture.create_view", [texture |-> Some("output")]),
                  Call("device.create_command_encoder", [label |-> Some("Render Encoder")]),
                  Call("encoder.begin_render_pass",
                       [label |-> "Render Pass", load |-> CLEAR_COLOR, store |-> TRUE]),
                  Call("render_pass.set_pipeline", self.render_pipeline),
                  Call("render_pass.set_vertex_buffer",
                       [slot |-> 0, buffer |-> types_Buffer_get_inner(self.vbo)]),
                  Call("render_pass.set_index_buffer",
                       [buffer |-> types_Buffer_get_inner(self.ibo), format |-> "Uint16"]),
                  Call("render_pass.draw_indexed",
                       [indices     |-> <<0, types_Buffer_len(self.ibo)>>,
                        base_vertex |-> 0,
                        instances   |-> <<0, 1>>]),
                  Call("render_pass.drop", Unit),
                  Call("encoder.finish", Unit),
                  Call("queue.submit", [command_buffers |-> <<"Render Encoder">>]),
                  Call("output.present", Unit)>>]


----------------------------------------------------------------------------
(* main.rs: the events winit hands to the closure *)

\* window.id(), and the id of any window that is not ours.
WindowIds == {window_id, "other"}

\* winit::event::WindowEvent, as far as the closure tells its variants apart:
\* `state` and `virtual_keycode` are those of KeyboardInput, `size` is the
\* size of Resized and the new_inner_size of ScaleFactorChanged.
WindowEvent(kind, st, key, size) ==
    [kind |-> kind, state |-> st, virtual_keycode |-> key, size |-> size]

NoSize == [width |-> 0, height |-> 0]
NoWindowEvent == WindowEvent("-", "-", None, NoSize)

WindowEvents ==
    {WindowEvent("CloseRequested", "-", None, NoSize),
     WindowEvent("CursorMoved", "-", None, NoSize)}
    \cup {WindowEvent("KeyboardInput", st, key, NoSize) :
            st \in {"Pressed", "Released"}, key \in {Some("Escape"), Some("A"), None}}
    \cup {WindowEvent(kind, "-", None, size) :
            kind \in {"Resized", "ScaleFactorChanged"}, size \in PhysicalSize}

\* winit::event::Event
Event(kind, wid, we) == [kind |-> kind, window_id |-> wid, event |-> we]
NoEvent == Event("-", "-", NoWindowEvent)

\* One call of a method of the struct: its argument (a record) and what it
\* returned (as it prints).
Invoke(method, arg, ret) == [method |-> method, arg |-> arg, ret |-> ret]

\* A faulty pattern, to test C8: it matches Escape in either state.
IsExitEvent_any_state(we) ==
    \/ we.kind = "CloseRequested"
    \/ /\ we.kind = "KeyboardInput"
       /\ we.virtual_keycode = Some("Escape")

\* The pattern of the first WindowEvent arm: CloseRequested, or
\* KeyboardInput { state: Pressed, virtual_keycode: Some(Escape), .. }.
IsExitEvent(we) ==
    \/ we.kind = "CloseRequested"
    \/ /\ we.kind = "KeyboardInput"
       /\ we.state = "Pressed"
       /\ we.virtual_keycode = Some("Escape")

\* What one run of the closure leaves behind.
Handled(st, cf, inv, cs) == [state |-> st, control_flow |-> cf, invoked |-> inv, calls |-> cs]

\* A faulty closure, to test C7: every acquisition error but Lost requests
\* termination.
closure_exits_on_any_error(st, cf, ev, acquired) ==
    CASE ev.kind = "WindowEvent" ->
            IF ev.window_id # window_id
            THEN Handled(st, cf, <<>>, <<>>)
            ELSE
              LET i == input(st, ev.event)
                  called == <<Invoke("input", ev.event, Bool(i.ret))>>
              IN  IF i.ret
                  THEN Handled(i.self, cf, called, i.calls)
                  ELSE
                    CASE IsExitEvent(ev.event) ->
                            Handled(i.self, "Exit", called, i.calls)
                      [] ev.event.kind \in {"Resized", "ScaleFactorChanged"} ->
                            LET r == resize(i.self, ev.event.size)
                            IN  Handled(r.self, cf,
                                        called \o <<Invoke("resize", ev.event.size, "()")>>,
                                        i.calls \o r.calls)
                      [] OTHER -> Handled(i.self, cf, called, i.calls)
      [] ev.kind = "RedrawRequested" /\ ev.window_id = window_id ->
            LET u == update(st)
                r == render(u.self, acquired)
                called == <<Invoke("update", Unit, "()"), Invoke("render", Unit, r.ret)>>
                cs == u.calls \o r.calls
            IN  CASE r.ret = "Ok" -> Handled(r.self, cf, called, cs)
                  [] r.ret = "Lost" ->
                        LET z == resize(r.self, r.self.size)
                        IN  Handled(z.self, cf,
                                    called \o <<Invoke("resize", r.self.size, "()")>>,
                                    cs \o z.calls)
                  [] OTHER -> Handled(r.self, "Exit", called, cs)
      [] ev.kind = "MainEventsCleared" ->
            Handled(st, cf, <<>>, <<Call("window.request_redraw", [window |-> window_id])>>)
      [] OTHER -> Handled(st, cf, <<>>, <<>>)

\* A faulty closure, to test C16: a redraw renders before it updates.
closure_renders_first(st, cf, ev, acquired) ==
    CASE ev.kind = "WindowEvent" ->
            IF ev.window_id # window_id
            THEN Handled(st, cf, <<>>, <<>>)
            ELSE
              LET i == input(st, ev.event)
                  called == <<Invoke("input", ev.event, Bool(i.ret))>>
              IN  IF i.ret
                  THEN Handled(i.self, cf, called, i.calls)
                  ELSE
                    CASE IsExitEvent(ev.event) ->
                            Handled(i.self, "Exit", called, i.calls)
                      [] ev.event.kind \in {"Resized", "ScaleFactorChanged"} ->
                            LET r == resize(i.self, ev.event.size)
                            IN  Handled(r.self, cf,
                                        called \o <<Invoke("resize", ev.event.size, "()")>>,
                                        i.calls \o r.calls)
                      [] OTHER -> Handled(i.self, cf, called, i.calls)
      [] ev.kind = "RedrawRequested" /\ ev.window_id = window_id ->
            LET r == render(st, acquired)
                u == update(r.self)
                called == <<Invoke("render", Unit, r.ret), Invoke("update", Unit, "()")>>
                cs == r.calls \o u.calls
            IN  CASE r.ret = "Ok" -> Handled(r.self, cf, called, cs)
                  [] r.ret = "Lost" ->
                        LET z == resize(r.self, r.self.size)
                        IN  Handled(z.self, cf,
                                    called \o <<Invoke("resize", r.self.size, "()")>>,
                                    cs \o z.calls)
                  [] r.ret = "OutOfMemory" -> Handled(r.self, "Exit", called, cs)
                  [] OTHER -> Handled(r.self, cf, called, cs \o <<Call("eprintln", [error |-> r.ret])>>)
      [] ev.kind = "MainEventsCleared" ->
            Handled(st, cf, <<>>, <<Call("window.request_redraw", [window |-> window_id])>>)
      [] OTHER -> Handled(st, cf, <<>>, <<>>)

\* A faulty closure, to test C21: it sets *control_flow to Poll whenever the
\* events are drained.
closure_polls_when_cleared(st, cf, ev, acquired) ==
    CASE ev.kind = "WindowEvent" ->
            IF ev.window_id # window_id
            THEN Handled(st, cf, <<>>, <<>>)
            ELSE
              LET i == input(st, ev.event)
                  called == <<Invoke("input", ev.event, Bool(i.ret))>>
              IN  IF i.ret
                  THEN Handled(i.self, cf, called, i.calls)
                  ELSE
                    CASE IsExitEvent(ev.event) ->
                            Handled(i.self, "Exit", called, i.calls)
                      [] ev.event.kind \in {"Resized", "ScaleFactorChanged"} ->
                            LET r == resize(i.self, ev.event.size)
                            IN  Handled(r.self, cf,
                                        called \o <<Invoke("resize", ev.event.size, "()")>>,
                                        i.calls \o r.calls)
                      [] OTHER -> Handled(i.self, cf, called, i.calls)
      [] ev.kind = "RedrawRequested" /\ ev.window_id = window_id ->
            LET u == update(st)
                r == render(u.self, acquired)
                called == <<Invoke("update", Unit, "()"), Invoke("render", Unit, r.ret)>>
                cs == u.calls \o r.calls
            IN  CASE r.ret = "Ok" -> Handled(r.self, cf, called, cs)
                  [] r.ret = "Lost" ->
                        LET z == resize(r.self, r.self.size)
                        IN  Handled(z.self, cf,
                                    called \o <<Invoke("resize", r.self.size, "()")>>,
                                    cs \o z.calls)
                  [] r.ret = "OutOfMemory" -> Handled(r.self, "Exit", called, cs)
                  [] OTHER -> Handled(r.self, cf, called, cs \o <<Call("eprintln", [error |-> r.ret])>>)
      [] ev.kind = "MainEventsCleared" ->
            Handled(st, "Poll", <<>>, <<Call("window.request_redraw", [window |-> window_id])>>)
      [] OTHER -> Handled(st, cf, <<>>, <<>>)

\* The closure given to event_loop.run: `st` is the captured Renderer and
\* `cf` the value of *control_flow on entry; `acquired` is what
\* get_current_texture answers should the closure render.
closure(st, cf, ev, acquired) ==
    CASE ev.kind = "WindowEvent" ->
            IF ev.window_id # window_id
            THEN Handled(st, cf, <<>>, <<>>)
            ELSE
              LET i == input(st, ev.event)
                  called == <<Invoke("input", ev.event, Bool(i.ret))>>
              IN  IF i.ret
                  THEN Handled(i.self, cf, called, i.calls)
                  ELSE
                    CASE IsExitEvent(ev.event) ->
                            Handled(i.self, "Exit", called, i.calls)
                      [] ev.event.kind \in {"Resized", "ScaleFactorChanged"} ->
                            LET r == resize(i.self, ev.event.size)
                            IN  Handled(r.self, cf,
                                        called \o <<Invoke("resize", ev.event.size, "()")>>,
                                        i.calls \o r.calls)
                      [] OTHER -> Handled(i.self, cf, called, i.calls)
      [] ev.kind = "RedrawRequested" /\ ev.window_id = window_id ->
            LET u == update(st)
                r == render(u.self, acquired)
                called == <<Invoke("update", Unit, "()"), Invoke("render", Unit, r.ret)>>
                cs == u.calls \o r.calls
            IN  CASE r.ret = "Ok" -> Handled(r.self, cf, called, cs)
                  [] r.ret = "Lost" ->
                        LET z == resize(r.self, r.self.size)
                        IN  Handled(z.self, cf,
                                    called \o <<Invoke("resize", r.self.size, "()")>>,
                                    cs \o z.calls)
                  [] r.ret = "OutOfMemory" -> Handled(r.self, "Exit", called, cs)
                  [] OTHER -> Handled(r.self, cf, called, cs \o <<Call("eprintln", [error |-> r.ret])>>)
      [] ev.kind = "MainEventsCleared" ->
            Handled(st, cf, <<>>, <<Call("window.request_redraw", [window |-> window_id])>>)
      [] OTHER -> Handled(st, cf, <<>>, <<>>)

----------------------------------------------------------------------------
(* The application: run() of main.rs *)

\* The first supported format is the one configured; two stand for all.
Formats == {"Bgra8UnormSrgb", "Rgba8UnormSrgb"}
FormatLists == {<<>>} \cup {<<f>> : f \in Formats} \cup {<<f, g>> : f, g \in Formats}

\* The texture asset is fixed at build time and not among the files: its
\* dimensions are 1..MaxImage and it is decoded as RGB (3) or RGBA (4).
MaxImage == 2
Images == {Image(w, h, c) : w \in 1 .. MaxImage, h \in 1 .. MaxImage, c \in {3, 4}}

ZeroArea == {"refused", "accepted"}

\* run(): `Renderer::new(&window).await`, which either panics (the process
\* aborts) or gives the Renderer the loop then owns.
RendererNew ==
    /\ pc = "boot"
    /\ build = "Renderer"
    /\ \E adapter \in BOOLEAN, device \in BOOLEAN, formats \in FormatLists,
          image \in Images, zero_area \in ZeroArea :
          LET n == Renderer_new(window_size, adapter, device, formats, image, zero_area)
          IN  /\ pc' = IF n.panicked THEN "aborted" ELSE "running"
              /\ state' = n.self
              /\ invoked' = <<Invoke("new", window_size, IF n.panicked THEN "panic" ELSE "Self")>>
              /\ calls' = n.calls
    /\ UNCHANGED <<build, window_size, control_flow, redraw_requested, phase, event,
                   buffer, group, texture>>

\* One run of the closure on `ev`.
Dispatch(ev, acquired) ==
    LET h == closure(Unwrap(state), control_flow, ev, acquired)
    IN  /\ state' = Some(h.state)
        /\ control_flow' = h.control_flow
        /\ invoked' = h.invoked
        /\ calls' = h.calls
        /\ event' = ev
        /\ redraw_requested' =
              IF CallsOf(h.calls, "window.request_redraw") # <<>> THEN TRUE
              ELSE IF ev.kind = "RedrawRequested" /\ ev.window_id = window_id THEN FALSE
              ELSE redraw_requested

Looping == pc = "running" /\ build = "Renderer"

\* A window event arrives while the iteration's events are being drained.
DispatchWindowEvent ==
    /\ Looping
    /\ phase = "events"
    /\ \E wid \in WindowIds, we \in WindowEvents :
          Dispatch(Event("WindowEvent", wid, we), "Ok")
    /\ UNCHANGED <<pc, build, window_size, phase, buffer, group, texture>>

\* Any event the closure has no arm for (NewEvents, DeviceEvent, ...).
DispatchOtherEvent ==
    /\ Looping
    /\ phase = "events"
    /\ \E kind \in {"NewEvents", "DeviceEvent"} :
          Dispatch(Event(kind, "-", NoWindowEvent), "Ok")
    /\ UNCHANGED <<pc, build, window_size, phase, buffer, group, texture>>

\* The iteration's events are drained.
DispatchMainEventsCleared ==
    /\ Looping
    /\ phase = "events"
    /\ Dispatch(Event("MainEventsCleared", "-", NoWindowEvent), "Ok")
    /\ phase' = "redraws"
    /\ UNCHANGED <<pc, build, window_size, buffer, group, texture>>

\* winit serves the redraw requested for our window; a redraw for another
\* window may arrive at this point too.
DispatchRedrawRequested ==
    /\ Looping
    /\ phase = "redraws"
    /\ \E wid \in WindowIds, acquired \in Acquired :
          /\ wid = window_id => redraw_requested
          /\ Dispatch(Event("RedrawRequested", wid, NoWindowEvent), acquired)
    /\ UNCHANGED <<pc, build, window_size, phase, buffer, group, texture>>

\* The requested redraws are served; unless exit was requested the loop
\* goes round again.
DispatchRedrawEventsCleared ==
    /\ Looping
    /\ phase = "redraws"
    /\ ~redraw_requested
    /\ control_flow # "Exit"
    /\ Dispatch(Event("RedrawEventsCleared", "-", NoWindowEvent), "Ok")
    /\ phase' = "events"
    /\ UNCHANGED <<pc, build, window_size, buffer, group, texture>>

\* Exit was requested: winit sends LoopDestroyed and the process ends.
DispatchLoopDestroyed ==
    /\ Looping
    /\ control_flow = "Exit"
    /\ Dispatch(Event("LoopDestroyed", "-", NoWindowEvent), "Ok")
    /\ pc' = "exited"
    /\ UNCHANGED <<build, window_size, phase, buffer, group, texture>>

----------------------------------------------------------------------------
(* State of state.rs under any client: its constructor, then its public    *)
(* methods in any order with any arguments.                                *)

StateNew ==
    /\ pc = "boot"
    /\ build = "State"
    /\ \E adapter \in BOOLEAN, device \in BOOLEAN,
          preferred \in {None} \cup {Some(f) : f \in Formats}, zero_area \in ZeroArea :
          LET n == State_new(window_size, adapter, device, preferred, zero_area)
          IN  /\ pc' = IF n.panicked THEN "aborted" ELSE "running"
              /\ state' = n.self
              /\ invoked' = <<Invoke("new", window_size, IF n.panicked THEN "panic" ELSE "Self")>>
              /\ calls' = n.calls
    /\ UNCHANGED <<build, window_size, control_flow, redraw_requested, phase, event,
                   buffer, group, texture>>

Client == pc = "running" /\ build = "State"

StateResize ==
    /\ Client
    /\ \E new \in PhysicalSize :
          LET r == State_resize(Unwrap(state), new)
          IN  /\ state' = Some(r.self)
              /\ invoked' = <<Invoke("resize", new, "()")>>
              /\ calls' = r.calls
    /\ UNCHANGED <<pc, build, window_size, control_flow, redraw_requested, phase, event,
                   buffer, group, texture>>

StateInput ==
    /\ Client
    /\ \E we \in WindowEvents :
          LET i == State_input(Unwrap(state), we)
          IN  /\ state' = Some(i.self)
              /\ invoked' = <<Invoke("input", we, Bool(i.ret))>>
              /\ calls' = i.calls
    /\ UNCHANGED <<pc, build, window_size, control_flow, redraw_requested, phase, event,
                   buffer, group, texture>>

StateUpdate ==
    /\ Client
    /\ LET u == State_update(Unwrap(state))
       IN  /\ state' = Some(u.self)
           /\ invoked' = <<Invoke("update", Unit, "()")>>
           /\ calls' = u.calls
    /\ UNCHANGED <<pc, build, window_size, control_flow, redraw_requested, phase, event,
                   buffer, group, texture>>

StateRender ==
    /\ Client
    /\ \E acquired \in Acquired :
          LET r == State_render(Unwrap(state), acquired)
          IN  /\ state' = Some(r.self)
              /\ invoked' = <<Invoke("render", Unit, r.ret)>>
              /\ calls' = r.calls
    /\ UNCHANGED <<pc, build, window_size, control_flow, redraw_requested, phase, event,
                   buffer, group, texture>>

----------------------------------------------------------------------------
(* The specification of the application *)

Init ==
    /\ pc = "boot"
    /\ build \in {"Renderer", "State"}
    /\ window_size \in PhysicalSize
    /\ state = None
    /\ control_flow = "Poll"
    /\ redraw_requested = FALSE
    /\ phase = "events"
    /\ event = NoEvent
    /\ invoked = <<>>
    /\ calls = <<>>
    /\ buffer = None
    /\ group = None
    /\ texture = None

Next ==
    \/ RendererNew
    \/ DispatchWindowEvent
    \/ DispatchOtherEvent
    \/ DispatchMainEventsCleared
    \/ DispatchRedrawRequested
    \/ DispatchRedrawEventsCleared
    \/ DispatchLoopDestroyed
    \/ StateNew
    \/ StateResize
    \/ StateInput
    \/ StateUpdate
    \/ StateRender

Spec == Init /\ [][Next]_vars


----------------------------------------------------------------------------
(* The wrapper types under any caller: Buffer *)

\* Slice lengths are hi * 2^32 + lo for hi in 0..MaxHi and lo in 0..MaxLen.
MaxHi == 1
MaxLen == 3
USizes == {USize(hi, lo) : hi \in 0 .. MaxHi, lo \in 0 .. MaxLen}

\* Element sizes: u8, u16 and the two Vertex types.
ElemSizes == {1, 2, Vertex_size, types_Vertex_size}

BufferInitDescriptors ==
    [label    : {None, Some("Vertex Buffer")},
     usage    : {"VERTEX", "INDEX"},
     contents : {Slice(n, e, <<>>) : n \in USizes, e \in ElemSizes}]

\* What the harness keeps of one construction: the argument and the result.
\* Each behaviour of a harness is one construction, with any argument.
\* `by` names the file whose constructor ran.
Constructed(by, args, made) ==
    Some([by |-> by, args |-> args, self |-> made.self, calls |-> made.calls])

\* Nothing has been built yet.
Fresh == buffer = None /\ group = None /\ texture = None

\* types/buffer.rs: Buffer::new(device, &desc)
BufferNew ==
    /\ Fresh
    /\ \E desc \in BufferInitDescriptors : buffer' = Constructed("types/buffer.rs", desc, Buffer_new(desc))
    /\ UNCHANGED <<appVars, group, texture>>

\* types/mod.rs: Buffer::new(device, desc)
types_BufferNew ==
    /\ Fresh
    /\ \E desc \in BufferInitDescriptors : buffer' = Constructed("types/mod.rs", desc, types_Buffer_new(desc))
    /\ UNCHANGED <<appVars, group, texture>>

HarnessInit ==
    /\ pc = "boot"
    /\ build = "Renderer"
    /\ window_size = [width |-> 1, height |-> 1]
    /\ state = None
    /\ control_flow = "Poll"
    /\ redraw_requested = FALSE
    /\ phase = "events"
    /\ event = NoEvent
    /\ invoked = <<>>
    /\ calls = <<>>
    /\ buffer = None
    /\ group = None
    /\ texture = None

BufferNext == BufferNew \/ types_BufferNew

BufferSpec == HarnessInit /\ [][BufferNext]_vars

----------------------------------------------------------------------------
(* The wrapper types under any caller: binding groups *)

\* A group has 0..MaxEntries entries, with binding indices 0..MaxBinding.
MaxEntries == 2
MaxBinding == 1

\* The resources bound: each variant of wgpu::BindingResource that the
\* wrappers tell apart, the arrays empty and of two elements.
Resources ==
    {BindingResource("TextureView", USizeOf(0), "view"),
     BindingResource("Sampler", USizeOf(0), "sampler")}
    \cup {BindingResource(kind, USizeOf(n), "array") : kind \in ArrayKinds, n \in {0, 2}}

\* wgpu::BindingType of a resource, as a caller that matches its shader gives it.
BindingTypeOf(resource) ==
    CASE resource.kind \in {"TextureView", "TextureViewArray"} -> "Texture"
      [] resource.kind \in {"Sampler", "SamplerArray"} -> "Sampler"
      [] OTHER -> "Buffer"

Entries ==
    {[binding |-> b, visibility |-> v, ty |-> BindingTypeOf(r), resource |-> r] :
        b \in 0 .. MaxBinding, v \in {"VERTEX", "FRAGMENT"}, r \in Resources}

EntryLists == UNION {[1 .. k -> Entries] : k \in 0 .. MaxEntries}

Labels == {None, Some("diffuse_texture_group")}

\* binding/group.rs: Group::new(device, label, resources)
GroupNew ==
    /\ Fresh
    /\ \E label \in Labels, resources \in EntryLists :
          group' = Constructed("renderer/types/binding/group.rs",
                               [label |-> label, resources |-> resources],
                               Group_new(label, resources))
    /\ UNCHANGED <<appVars, buffer, texture>>

\* renderer/types/bind_group.rs: BindGroup::new(device, &BindGroupDescriptor::new(label, resources))
BindGroupNew ==
    /\ Fresh
    /\ \E label \in Labels, resources \in EntryLists :
          group' = Constructed("renderer/types/bind_group.rs",
                               [label |-> label, resources |-> resources],
                               BindGroup_new(BindGroupDescriptor_new(label, resources)))
    /\ UNCHANGED <<appVars, buffer, texture>>

\* types/bind_group.rs: BindGroup::new(device, &BindGroupDescriptor::new(label, resources))
types_BindGroupNew ==
    /\ Fresh
    /\ \E label \in Labels, resources \in EntryLists :
          group' = Constructed("types/bind_group.rs",
                               [label |-> label, resources |-> resources],
                               types_BindGroup_new(types_BindGroupDescriptor_new(label, resources)))
    /\ UNCHANGED <<appVars, buffer, texture>>

GroupNext == GroupNew \/ BindGroupNew \/ types_BindGroupNew

GroupSpec == HarnessInit /\ [][GroupNext]_vars

----------------------------------------------------------------------------
(* The wrapper types under any caller: Texture *)

\* Decoded images of 0..MaxImage by 0..MaxImage pixels; the bytes of one
\* pixel are those of Luma8 (1), Rgb8 (3), Rgba8 (4) and Rgba16 (8).
TextureImages ==
    {Image(w, h, c) : w \in 0 .. MaxImage, h \in 0 .. MaxImage, c \in {1, 3, 4, 8}}

TextureUsages == {{"TEXTURE_BINDING", "COPY_DST"}, {"TEXTURE_BINDING", "COPY_DST", "RENDER_ATTACHMENT"}}

SamplerDescs == {None, Some([DefaultSampler EXCEPT !.mag_filter = "Linear"])}

\* renderer/types/texture.rs: TextureDescriptor
TextureDescriptors ==
    [label : {None, Some("dirt_texture")}, mip_level_count : {1}, sample_count : {1},
     image : TextureImages]

\* types/texture.rs: TextureDescriptor
types_TextureDescriptors ==
    [label : {None, Some("dirt_texture")}, mip_level_count : {1}, sample_count : {1},
     usage : TextureUsages, image : TextureImages]

\* renderer/types/texture.rs: Texture::new(device, queue, &desc, sampler_desc)
TextureNew ==
    /\ Fresh
    /\ \E desc \in TextureDescriptors, sampler_desc \in SamplerDescs :
          texture' = Constructed("renderer/types/texture.rs",
                                 [desc |-> desc, sampler_desc |-> sampler_desc],
                                 Texture_new(desc, sampler_desc))
    /\ UNCHANGED <<appVars, buffer, group>>

\* types/texture.rs: Texture::new(device, queue, &desc, sampler_desc)
types_TextureNew ==
    /\ Fresh
    /\ \E desc \in types_TextureDescriptors, sampler_desc \in SamplerDescs :
          texture' = Constructed("types/texture.rs",
                                 [desc |-> desc, sampler_desc |-> sampler_desc],
                                 types_Texture_new(desc, sampler_desc))
    /\ UNCHANGED <<appVars, buffer, group>>

TextureNext == TextureNew \/ types_TextureNew

TextureSpec == HarnessInit /\ [][TextureNext]_vars

\* Any one wrapper built by any of its constructors.
WrapperNext == BufferNext \/ GroupNext \/ TextureNext

WrapperSpec == HarnessInit /\ [][WrapperNext]_vars


----------------------------------------------------------------------------
(* Properties of resize *)

\* The calls of `method` made by the last step.
Invocations(method) == SelectSeq(invoked, LAMBDA c : c.method = method)

\* The last step ended with a call resize(new): resize is the last thing a
\* step does whenever it calls it (the Resized and ScaleFactorChanged arms,
\* the Lost arm, a client's call), so the state after the step is the state
\* after that call.
ResizeCalled(inv) == inv # <<>> /\ inv[Len(inv)].method = "resize"
ResizeArg(inv) == inv[Len(inv)].arg

IsPositive(size) == size.width > 0 /\ size.height > 0

\* The surface.configure calls of the last step.
Configures(cs) == CallsOf(cs, "surface.configure")

\* C1: after every call resize(w, h) with w > 0 and h > 0, whoever makes it
\* and in whatever state, the stored size and the configuration's width and
\* height are (w, h), and the step configured the surface exactly once,
\* with that configuration.
C1_ResizePositiveSetsSize ==
    (ResizeCalled(invoked) /\ IsPositive(ResizeArg(invoked))) =>
        LET self == Unwrap(state)
            new == ResizeArg(invoked)
        IN  /\ self.size = new
            /\ self.config.width = new.width
            /\ self.config.height = new.height
            /\ Len(Configures(calls)) = 1
            /\ Configures(calls)[1].arg = self.config

\* A Resized event changed the Renderer from 1x1 to 2x1.
C1_Witness ==
    /\ build = "Renderer"
    /\ window_size = [width |-> 1, height |-> 1]
    /\ event = Event("WindowEvent", window_id,
                     WindowEvent("Resized", "-", None, [width |-> 2, height |-> 1]))
    /\ ResizeCalled(invoked)
    /\ Unwrap(state).size = [width |-> 2, height |-> 1]
    /\ Len(Configures(calls)) = 1

\* C2: a call resize(w, h) with w = 0 or h = 0 leaves the whole struct (the
\* stored size and every field of the configuration) as it was and issues
\* no surface.configure.
C2_ResizeZeroIsNoop ==
    [][(ResizeCalled(invoked') /\ ~IsPositive(ResizeArg(invoked'))) =>
          (state' = state /\ Configures(calls') = <<>>)]_vars

\* A Resized event with exactly one zero component was handled and the
\* Renderer kept its 2x2.
C2_Witness ==
    /\ build = "Renderer"
    /\ event = Event("WindowEvent", window_id,
                     WindowEvent("Resized", "-", None, [width |-> 0, height |-> 1]))
    /\ ResizeCalled(invoked)
    /\ ResizeArg(invoked) = [width |-> 0, height |-> 1]
    /\ Unwrap(state).size = [width |-> 2, height |-> 2]
    /\ calls = <<>>

\* C3: from the end of the constructor on, the surface configuration has
\* positive width and positive height.
C3_ConfigAlwaysPositive ==
    IsSome(state) => (Unwrap(state).config.width > 0 /\ Unwrap(state).config.height > 0)


----------------------------------------------------------------------------
(* Properties of render and of the frame *)

\* The step called render(); what it returned; what the acquisition gave.
RenderCalled(inv) == SelectSeq(inv, LAMBDA c : c.method = "render") # <<>>
RenderRet(inv) == SelectSeq(inv, LAMBDA c : c.method = "render")[1].ret
Acquisition(cs) == CallsOf(cs, "surface.get_current_texture")[1].arg.result

\* The operations of `cs`, in order, and those that belong to `ops`.
OpsOf(cs) == [i \in 1 .. Len(cs) |-> cs[i].op]
OpsAmong(cs, ops) == SelectSeq(OpsOf(cs), LAMBDA op : op \in ops)

\* C4: a render call whose acquisition succeeds records exactly one render
\* pass holding exactly one indexed draw of indices 0..6 and instances 0..1,
\* submits exactly one command buffer, then presents the acquired image
\* exactly once, and returns Ok. (Holds of Renderer::render and State::render.)
C4_RenderOneDrawOneSubmit ==
    (RenderCalled(invoked) /\ Acquisition(calls) = "Ok") =>
        LET draws == CallsOf(calls, "render_pass.draw_indexed")
            submits == CallsOf(calls, "queue.submit")
        IN  /\ Len(CallsOf(calls, "surface.get_current_texture")) = 1
            /\ Len(CallsOf(calls, "encoder.begin_render_pass")) = 1
            /\ Len(CallsOf(calls, "render_pass.drop")) = 1
            /\ Len(draws) = 1
            /\ draws[1].arg.indices = <<0, 6>>
            /\ draws[1].arg.instances = <<0, 1>>
            /\ Len(submits) = 1
            /\ Len(submits[1].arg.command_buffers) = 1
            /\ Len(CallsOf(calls, "output.present")) = 1
            /\ FirstIndex(calls, "encoder.begin_render_pass")
                  < FirstIndex(calls, "render_pass.draw_indexed")
            /\ FirstIndex(calls, "render_pass.draw_indexed")
                  < FirstIndex(calls, "render_pass.drop")
            /\ FirstIndex(calls, "render_pass.drop") < FirstIndex(calls, "queue.submit")
            /\ FirstIndex(calls, "queue.submit") < FirstIndex(calls, "output.present")
            /\ RenderRet(invoked) = "Ok"

\* The Renderer drew a frame in the loop.
C4_Witness ==
    /\ build = "Renderer"
    /\ event = Event("RedrawRequested", window_id, NoWindowEvent)
    /\ RenderCalled(invoked)
    /\ RenderRet(invoked) = "Ok"
    /\ Len(CallsOf(calls, "render_pass.draw_indexed")) = 1

\* The steps of a frame after the acquisition.
FrameOps ==
    {"device.create_command_encoder", "encoder.begin_render_pass",
     "render_pass.draw_indexed", "queue.submit", "output.present"}

FullFrame(cs) ==
    OpsAmong(cs, FrameOps \cup {"surface.get_current_texture"}) =
        <<"surface.get_current_texture", "device.create_command_encoder",
          "encoder.begin_render_pass", "render_pass.draw_indexed", "queue.submit",
          "output.present">>

SkippedFrame(cs) ==
    OpsAmong(cs, FrameOps \cup {"surface.get_current_texture"}) =
        <<"surface.get_current_texture">>

\* C5: a frame is atomic. A render call either acquires, encodes, draws,
\* submits and presents, each once and in that order, and returns Ok; or its
\* acquisition fails, it does none of encode, draw, submit, present, and it
\* returns the acquisition's error.
C5_FrameAtomic ==
    RenderCalled(invoked) =>
        \/ /\ Acquisition(calls) = "Ok"
           /\ FullFrame(calls)
           /\ RenderRet(invoked) = "Ok"
        \/ /\ Acquisition(calls) \in SurfaceError
           /\ SkippedFrame(calls)
           /\ RenderRet(invoked) = Acquisition(calls)

\* A frame of the loop whose acquisition timed out.
C5_Witness ==
    /\ build = "Renderer"
    /\ event = Event("RedrawRequested", window_id, NoWindowEvent)
    /\ RenderCalled(invoked)
    /\ RenderRet(invoked) = "Timeout"
    /\ SkippedFrame(calls)

\* This step was the loop's redraw of our window, and render returned `ret`.
Frame(ret) ==
    /\ build = "Renderer"
    /\ event' = Event("RedrawRequested", window_id, NoWindowEvent)
    /\ RenderCalled(invoked')
    /\ RenderRet(invoked') = ret

\* C6: whenever a frame's acquisition fails with Lost, the surface is
\* configured (once) with the configuration of the last known size, and the
\* stored size and configuration are the same before and after.
C6_LostReconfigures ==
    [][Frame("Lost") =>
          /\ Len(Configures(calls')) = 1
          /\ Configures(calls')[1].arg = Unwrap(state).config
          /\ Configures(calls')[1].arg.width = Unwrap(state).size.width
          /\ Configures(calls')[1].arg.height = Unwrap(state).size.height
          /\ state' = state]_vars

----------------------------------------------------------------------------
(* Properties of the loop *)

\* The loop under the scheduling winit gives it: the events of an iteration
\* are drained, a requested redraw is served, and the iteration ends.
DispatchOwnRedraw ==
    /\ DispatchRedrawRequested
    /\ event'.window_id = window_id

FairSpec ==
    /\ Spec
    /\ WF_vars(DispatchMainEventsCleared)
    /\ WF_vars(DispatchOwnRedraw)
    /\ WF_vars(DispatchRedrawEventsCleared)

\* A frame of the loop was skipped: render returned Timeout or Outdated.
FrameSkipped ==
    /\ build = "Renderer"
    /\ event = Event("RedrawRequested", window_id, NoWindowEvent)
    /\ RenderCalled(invoked)
    /\ RenderRet(invoked) \in {"Timeout", "Outdated"}

\* C7: a frame whose acquisition fails with OutOfMemory requests
\* termination. A frame whose acquisition fails with Timeout or Outdated is
\* skipped: the step leaves *control_flow and the Renderer as they were, and
\* the loop goes on: unless termination is requested by something else, the
\* events are drained again, a redraw is requested and the redraw is run.
C7_OutOfMemoryExitsOthersSkip ==
    /\ [][/\ Frame("OutOfMemory") => control_flow' = "Exit"
          /\ (Frame("Timeout") \/ Frame("Outdated")) =>
                /\ control_flow' = control_flow
                /\ state' = state
                /\ SkippedFrame(calls')
                /\ pc' = "running"]_vars
    /\ FrameSkipped ~>
          (control_flow = "Exit" \/ (event.kind = "MainEventsCleared" /\ redraw_requested))
    /\ (event.kind = "MainEventsCleared" /\ redraw_requested) ~>
          (control_flow = "Exit" \/ (event = Event("RedrawRequested", window_id, NoWindowEvent)
                                     /\ RenderCalled(invoked)))

\* A frame was skipped on Outdated and nothing has requested termination.
C7_Witness ==
    /\ FrameSkipped
    /\ RenderRet(invoked) = "Outdated"
    /\ control_flow = "Poll"
    /\ pc = "running"

\* This step handed the closure the window event `we` of our window.
WindowEventHandled(we) == event' = Event("WindowEvent", window_id, we)

\* C8: a close request, or a keyboard event for Escape in the Pressed state,
\* requests termination; a keyboard event for Escape in the Released state,
\* or for any other key, leaves *control_flow as it was.
C8_CloseAndEscapeExit ==
    [][\A we \in WindowEvents :
          WindowEventHandled(we) =>
            /\ we.kind = "CloseRequested" => control_flow' = "Exit"
            /\ (we.kind = "KeyboardInput" /\ we.virtual_keycode = Some("Escape")
                  /\ we.state = "Pressed") => control_flow' = "Exit"
            /\ (we.kind = "KeyboardInput" /\ we.virtual_keycode = Some("Escape")
                  /\ we.state = "Released") => control_flow' = control_flow
            /\ (we.kind = "KeyboardInput" /\ we.virtual_keycode # Some("Escape"))
                  => control_flow' = control_flow]_vars

\* Escape was pressed and termination is requested.
C8_Witness ==
    /\ event = Event("WindowEvent", window_id,
                     WindowEvent("KeyboardInput", "Pressed", Some("Escape"), NoSize))
    /\ control_flow = "Exit"
    /\ pc = "running"


----------------------------------------------------------------------------
(* Properties of the wrapper types *)

\* len() and is_empty() of the Buffer the harness built, by the file that built it.
BuiltLen(b) == IF b.by = "types/mod.rs" THEN types_Buffer_len(b.self) ELSE Buffer_len(b.self)
BuiltIsEmpty(b) ==
    IF b.by = "types/mod.rs" THEN types_Buffer_is_empty(b.self) ELSE Buffer_is_empty(b.self)

\* C9: a Buffer built from a slice of length n reports len() == n and
\* is_empty() == (n == 0), for every n, those of 2^32 and more included.
C9_BufferLenIsSliceLen ==
    IsSome(buffer) =>
        LET b == Unwrap(buffer)
            n == b.args.contents.len
        IN  /\ U32AsUSize(BuiltLen(b)) = n
            /\ BuiltIsEmpty(b) = (n = USizeOf(0))

\* C10: a group built from k entries has a layout of exactly k entries and
\* a binding list of exactly k entries, both in the order supplied: layout
\* entry i has the binding index, the visibility and the type of entry i,
\* and bind entry i its binding index and its resource. These are the
\* entries the device was given.
C10_GroupKeepsEntries ==
    IsSome(group) =>
        LET g == Unwrap(group)
            resources == g.args.resources
            k == Len(resources)
            layout_entries == g.self.layout.desc.entries
            bind_entries == g.self.inner.desc.entries
        IN  /\ Len(layout_entries) = k
            /\ Len(bind_entries) = k
            /\ \A i \in 1 .. k :
                  /\ layout_entries[i].binding = resources[i].binding
                  /\ layout_entries[i].visibility = resources[i].visibility
                  /\ layout_entries[i].ty = resources[i].ty
                  /\ bind_entries[i].binding = resources[i].binding
                  /\ bind_entries[i].resource = resources[i].resource
            /\ CallsOf(g.calls, "device.create_bind_group_layout")[1].arg.entries = layout_entries
            /\ CallsOf(g.calls, "device.create_bind_group")[1].arg.entries = bind_entries

\* Group::new was given two entries, binding 1 before binding 0, of
\* different stages and types.
C10_Witness ==
    /\ IsSome(group)
    /\ Unwrap(group).by = "renderer/types/binding/group.rs"
    /\ Len(Unwrap(group).args.resources) = 2
    /\ Unwrap(group).args.resources[1].binding = 1
    /\ Unwrap(group).args.resources[1].visibility = "VERTEX"
    /\ Unwrap(group).args.resources[1].ty = "Sampler"
    /\ Unwrap(group).args.resources[2].binding = 0
    /\ Unwrap(group).args.resources[2].visibility = "FRAGMENT"
    /\ Unwrap(group).args.resources[2].ty = "Texture"
    /\ Len(Unwrap(group).self.layout.desc.entries) = 2


\* C11: the count of every layout entry is the length of the array bound
\* when the resource is a buffer array, a sampler array or a texture-view
\* array, whatever its length (0 included), and is absent when the resource
\* is not an array.
C11_CountIsArrayLength ==
    IsSome(group) =>
        LET g == Unwrap(group)
            resources == g.args.resources
            layout_entries == g.self.layout.desc.entries
        IN  \A i \in 1 .. Len(resources) :
              IF resources[i].resource.kind \in ArrayKinds
              THEN /\ IsSome(layout_entries[i].count)
                   /\ U32AsUSize(Unwrap(layout_entries[i].count)) = resources[i].resource.len
              ELSE layout_entries[i].count = None


\* C12: for a source image of width x height pixels, Texture::new issues one
\* upload whose data is exactly width * height * 4 bytes, with a row pitch
\* of 4 * width, height rows per image, and a copy extent of
\* (width, height, 1), which is the extent of the texture it allocated.
C12_UploadMatchesImage ==
    IsSome(texture) =>
        LET t == Unwrap(texture)
            image == t.args.desc.image
            writes == CallsOf(t.calls, "queue.write_texture")
            created == CallsOf(t.calls, "device.create_texture")
        IN  /\ Len(writes) = 1
            /\ Len(created) = 1
            /\ writes[1].arg.data.len = USizeOf(image.width * image.height * 4)
            /\ writes[1].arg.data.elem_size = 1
            /\ writes[1].arg.layout.bytes_per_row = NonZeroU32_new(4 * image.width)
            /\ writes[1].arg.layout.rows_per_image = NonZeroU32_new(image.height)
            /\ writes[1].arg.size =
                  [width |-> image.width, height |-> image.height, depth_or_array_layers |-> 1]
            /\ writes[1].arg.size = created[1].arg.size
            /\ writes[1].arg.texture.desc = created[1].arg


\* The descriptor of renderer/types/texture.rs that carries what a
\* descriptor of types/texture.rs carries (all its fields but the usage).
SameTextureInput(desc) ==
    [label           |-> desc.label,
     mip_level_count |-> desc.mip_level_count,
     sample_count    |-> desc.sample_count,
     image           |-> desc.image]

\* C13: the two implementations of each wrapper are functionally identical:
\* whatever one of them was given, the other, given the same, issues the
\* same device calls in the same order with the same descriptor contents
\* and builds a wrapper whose accessors answer the same.
C13_ImplementationsAgree ==
    /\ (IsSome(buffer) /\ Unwrap(buffer).by = "types/buffer.rs") =>
          LET b == Unwrap(buffer)
              other == types_Buffer_new(b.args)
          IN  /\ b.calls = other.calls
              /\ Buffer_len(b.self) = types_Buffer_len(other.self)
              /\ Buffer_is_empty(b.self) = types_Buffer_is_empty(other.self)
              /\ Buffer_get_inner(b.self) = types_Buffer_get_inner(other.self)
    /\ (IsSome(group) /\ Unwrap(group).by = "types/bind_group.rs") =>
          LET g == Unwrap(group)
              other == BindGroup_new(BindGroupDescriptor_new(g.args.label, g.args.resources))
          IN  /\ g.calls = other.calls
              /\ g.self = other.self
    /\ (IsSome(texture) /\ Unwrap(texture).by = "types/texture.rs") =>
          LET t == Unwrap(texture)
              other == Texture_new(SameTextureInput(t.args.desc), t.args.sampler_desc)
          IN  /\ t.calls = other.calls
              /\ types_Texture_get_view(t.self) = Texture_view(other.self)
              /\ types_Texture_get_sampler(t.self) = Texture_sampler(other.self)


----------------------------------------------------------------------------
(* Properties of the vertex layout *)

\* The bytes one attribute of a wgpu::VertexFormat reads.
VertexFormatSize(format) ==
    CASE format = "Float32x2" -> 2 * F32
      [] format = "Float32x3" -> 3 * F32
      [] format = "Float32x4" -> 4 * F32

\* C14: the vertex-input description State::create_pipeline hands to the
\* pipeline matches the memory layout of Vertex: the stride is the size of
\* one Vertex, attribute 0 covers the 3 floats of the position, attribute 1
\* starts where the position ends and covers the whole second field (the 4
\* floats of the color), and the attributes account for exactly the stride.
C14_VertexLayoutMatches ==
    (build = "State" /\ CallsOf(calls, "device.create_render_pipeline") # <<>>) =>
        LET buffers == CallsOf(calls, "device.create_render_pipeline")[1].arg.vertex.buffers
            attrs == buffers[1].attributes
            position == types_Vertex_fields[1]
            color == types_Vertex_fields[2]
        IN  /\ Len(buffers) = 1
            /\ buffers[1].array_stride = F32 * (position.floats + color.floats)
            /\ Len(attrs) = 2
            /\ attrs[1].shader_location = 0
            /\ attrs[1].offset = 0
            /\ VertexFormatSize(attrs[1].format) = F32 * position.floats
            /\ attrs[2].shader_location = 1
            /\ attrs[2].offset = F32 * position.floats
            /\ VertexFormatSize(attrs[2].format) = F32 * color.floats
            /\ VertexFormatSize(attrs[1].format) + VertexFormatSize(attrs[2].format)
                  = buffers[1].array_stride


----------------------------------------------------------------------------
(* Properties of input and update *)

\* The methods the step called are all among `methods`.
InvokedOnly(inv, methods) == \A i \in 1 .. Len(inv) : inv[i].method \in methods

\* C15: input returns false for every event and update returns nothing; a
\* step that calls nothing but input and update leaves the whole struct
\* (size, configuration, pipeline, buffers, bind group) as it was and issues
\* no device, queue or surface call. So no window event of our window is
\* withheld: input is asked once and answers false, a close request or an
\* Escape press requests termination, and a Resized or ScaleFactorChanged
\* reaches resize with the size it carries.
C15_InputUpdateInert ==
    [][/\ \A i \in 1 .. Len(invoked') :
             /\ invoked'[i].method = "input" => invoked'[i].ret = "false"
             /\ invoked'[i].method = "update" => invoked'[i].ret = "()"
       /\ (invoked' # <<>> /\ InvokedOnly(invoked', {"input", "update"})) =>
             (state' = state /\ calls' = <<>>)
       /\ \A we \in WindowEvents :
             (build = "Renderer" /\ WindowEventHandled(we)) =>
                /\ Invocations("input")' = <<Invoke("input", we, "false")>>
                /\ invoked'[1].method = "input"
                /\ (\/ we.kind = "CloseRequested"
                    \/ /\ we.kind = "KeyboardInput"
                       /\ we.state = "Pressed"
                       /\ we.virtual_keycode = Some("Escape"))
                      => control_flow' = "Exit"
                /\ we.kind \in {"Resized", "ScaleFactorChanged"} =>
                      (ResizeCalled(invoked') /\ ResizeArg(invoked') = we.size)]_vars

\* A close request went through input, which answered false, and the loop
\* was asked to end; nothing else was called.
C15_Witness ==
    /\ build = "Renderer"
    /\ event = Event("WindowEvent", window_id,
                     WindowEvent("CloseRequested", "-", None, NoSize))
    /\ invoked = <<Invoke("input", event.event, "false")>>
    /\ calls = <<>>
    /\ control_flow = "Exit"


----------------------------------------------------------------------------
(* Properties of the iteration *)

\* C16: whenever the events of an iteration are drained (MainEventsCleared),
\* whatever happened earlier in the iteration, the closure requests one
\* redraw of the window; every redraw of the window calls update() once and
\* then render() once, and nothing before them; and every iteration gets
\* there: while the loop drains events, the redraw request follows (unless
\* the loop has been destroyed).
C16_RedrawEveryIteration ==
    /\ [][/\ (build = "Renderer" /\ event'.kind = "MainEventsCleared") =>
                /\ calls' = <<Call("window.request_redraw", [window |-> window_id])>>
                /\ redraw_requested'
                /\ invoked' = <<>>
          /\ (build = "Renderer" /\ event' = Event("RedrawRequested", window_id, NoWindowEvent)) =>
                /\ Len(invoked') >= 2
                /\ invoked'[1] = Invoke("update", Unit, "()")
                /\ invoked'[2].method = "render"
                /\ Len(Invocations("update")') = 1
                /\ Len(Invocations("render")') = 1
                /\ Len(CallsOf(calls', "surface.get_current_texture")) = 1]_vars
    /\ (pc = "running" /\ build = "Renderer" /\ phase = "events") ~>
          (pc = "exited" \/ (event.kind = "MainEventsCleared" /\ redraw_requested))

\* The events were drained after termination had been requested, and the
\* redraw was requested all the same.
C16_Witness ==
    /\ build = "Renderer"
    /\ pc = "running"
    /\ event.kind = "MainEventsCleared"
    /\ control_flow = "Exit"
    /\ redraw_requested
    /\ calls = <<Call("window.request_redraw", [window |-> window_id])>>


\* This step handed the closure a Resized or ScaleFactorChanged of our window.
ResizeEventHandled ==
    /\ event'.kind = "WindowEvent"
    /\ event'.window_id = window_id
    /\ event'.event.kind \in {"Resized", "ScaleFactorChanged"}

\* C17: the stored size follows the resize events of the window. The
\* Renderer starts with the initial window size; a Resized or
\* ScaleFactorChanged carrying a positive size makes that size the stored
\* size; one carrying a zero component, and every other step of the loop,
\* leaves the stored size as it was. So after any sequence of such events the
\* stored size is the one of the most recent positive event, or the initial
\* size if there was none. A later successful render runs against that
\* size: it is the size the surface was last configured with.
C17_SizeFollowsResizeEvents ==
    [][build = "Renderer" =>
          /\ (pc = "boot" /\ pc' = "running") =>
                /\ Unwrap(state').size = window_size
                /\ Configures(calls')[1].arg.width = window_size.width
                /\ Configures(calls')[1].arg.height = window_size.height
          /\ (pc = "running" /\ vars' # vars) =>
                /\ Unwrap(state').size =
                      IF ResizeEventHandled /\ IsPositive(event'.event.size)
                      THEN event'.event.size
                      ELSE Unwrap(state).size
                /\ \A i \in 1 .. Len(Configures(calls')) :
                      /\ Configures(calls')[i].arg.width = Unwrap(state').size.width
                      /\ Configures(calls')[i].arg.height = Unwrap(state').size.height
                /\ Configures(calls') = <<>> =>
                      /\ Unwrap(state').config.width = Unwrap(state).config.width
                      /\ Unwrap(state').config.height = Unwrap(state).config.height
                /\ (RenderCalled(invoked') /\ RenderRet(invoked') = "Ok") =>
                      /\ Unwrap(state).config.width = Unwrap(state).size.width
                      /\ Unwrap(state).config.height = Unwrap(state).size.height]_vars

\* The window started at 1x1, was resized to 2x1, and then a Resized to 0x0
\* (a minimize) left the 2x1.
C17_Witness ==
    /\ build = "Renderer"
    /\ window_size = [width |-> 1, height |-> 1]
    /\ event = Event("WindowEvent", window_id,
                     WindowEvent("Resized", "-", None, [width |-> 0, height |-> 0]))
    /\ ResizeCalled(invoked)
    /\ Unwrap(state).size = [width |-> 2, height |-> 1]
    /\ Unwrap(state).config.width = 2
    /\ Unwrap(state).config.height = 1


----------------------------------------------------------------------------
(* Properties of the bind group of the Renderer *)

\* The step was Renderer::new and it returned the Renderer.
RendererBuilt ==
    /\ build = "Renderer"
    /\ invoked # <<>>
    /\ invoked[1].method = "new"
    /\ invoked[1].ret = "Self"

\* C18: layout and bindings stay in lock-step. Renderer::new creates one
\* layout object and then one bind group, the bind group against exactly
\* that layout; at every position the bind entry and the layout entry have
\* the same binding index; the layout given to the pipeline's construction
\* is the layout of that bind group; and the bind group every render binds
\* at slot 0 is that very bind group, next to that very pipeline.
C18_LayoutAndBindingsInLockStep ==
    /\ RendererBuilt =>
          LET layouts == CallsOf(calls, "device.create_bind_group_layout")
              groups == CallsOf(calls, "device.create_bind_group")
              pipeline_layouts == CallsOf(calls, "device.create_pipeline_layout")
              self == Unwrap(state)
          IN  /\ Len(layouts) = 1
              /\ Len(groups) = 1
              /\ Len(pipeline_layouts) = 1
              /\ FirstIndex(calls, "device.create_bind_group_layout")
                    < FirstIndex(calls, "device.create_bind_group")
              /\ FirstIndex(calls, "device.create_bind_group")
                    < FirstIndex(calls, "device.create_pipeline_layout")
              /\ groups[1].arg.layout = [obj |-> "BindGroupLayout", desc |-> layouts[1].arg]
              /\ pipeline_layouts[1].arg.bind_group_layouts = <<groups[1].arg.layout>>
              /\ self.diffuse_bind_group.inner = [obj |-> "BindGroup", desc |-> groups[1].arg]
              /\ self.diffuse_bind_group.layout = groups[1].arg.layout
    /\ (build = "Renderer" /\ IsSome(state)) =>
          LET self == Unwrap(state)
              bound == self.diffuse_bind_group.inner.desc
              pipeline_layout == Unwrap(self.render_pipeline.desc.layout)
          IN  /\ pipeline_layout.desc.bind_group_layouts = <<bound.layout>>
              /\ Len(bound.entries) = Len(bound.layout.desc.entries)
              /\ \A i \in 1 .. Len(bound.entries) :
                    bound.entries[i].binding = bound.layout.desc.entries[i].binding
              /\ (RenderCalled(invoked) /\ RenderRet(invoked) = "Ok") =>
                    /\ CallsOf(calls, "render_pass.set_bind_group")
                          = <<Call("render_pass.set_bind_group",
                                   [index |-> 0, group |-> self.diffuse_bind_group.inner])>>
                    /\ CallsOf(calls, "render_pass.set_pipeline")
                          = <<Call("render_pass.set_pipeline", self.render_pipeline)>>

\* A frame was drawn with the bind group of two entries bound at slot 0,
\* whose layout is the one the pipeline was built with.
C18_Witness ==
    /\ build = "Renderer"
    /\ IsSome(state)
    /\ RenderCalled(invoked)
    /\ RenderRet(invoked) = "Ok"
    /\ Len(CallsOf(calls, "render_pass.set_bind_group")) = 1
    /\ Len(CallsOf(calls, "render_pass.set_bind_group")[1].arg.group.desc.entries) = 2
    /\ Unwrap(Unwrap(state).render_pipeline.desc.layout).desc.bind_group_layouts[1]
          = CallsOf(calls, "render_pass.set_bind_group")[1].arg.group.desc.layout


----------------------------------------------------------------------------
(* Properties of start-up *)

\* The methods of the struct that the loop (or a client) calls.
LoopMethods == {"resize", "input", "update", "render"}

\* C19: adapter and device are negotiated exactly once, by the constructor,
\* before the loop is entered. Until the constructor has returned no
\* resize, input, update or render is called and no event is dispatched; the
\* constructor asks for the adapter once and for the device at most once,
\* and it is never run again; if the adapter or the device is refused the
\* process aborts: there is no second request, no struct, and after it no
\* event is dispatched and no method called.
C19_NegotiationOnceBeforeLoop ==
    /\ [](/\ pc = "boot" =>
                (state = None /\ invoked = <<>> /\ calls = <<>> /\ event = NoEvent)
          /\ pc = "aborted" =>
                /\ state = None
                /\ event = NoEvent
                /\ invoked = <<Invoke("new", window_size, "panic")>>
          /\ (\E i \in 1 .. Len(invoked) : invoked[i].method \in LoopMethods) =>
                (IsSome(state) /\ pc = "running")
          /\ event # NoEvent => IsSome(state))
    /\ [][/\ pc' # pc => (pc' # "boot" /\ pc # "aborted" /\ pc # "exited")
          /\ pc = "aborted" => vars' = vars
          /\ (pc = "boot" /\ pc' # "boot") =>
                LET adapters == CallsOf(calls', "instance.request_adapter")
                    devices == CallsOf(calls', "adapter.request_device")
                    negotiated == Len(adapters) = 1 /\ Len(devices) = 1
                IN  /\ Len(adapters) = 1
                    /\ Len(devices) <= 1
                    /\ pc' = "running" =>
                          /\ negotiated
                          /\ FirstIndex(calls', "instance.request_adapter")
                                < FirstIndex(calls', "adapter.request_device")
                          /\ FirstIndex(calls', "adapter.request_device")
                                < FirstIndex(calls', "surface.configure")
                    /\ Len(devices) = 0 => (pc' = "aborted" /\ Len(calls') = 2)
                    /\ (Len(devices) = 1 /\ Len(calls') = 3) => pc' = "aborted"
          /\ pc # "boot" =>
                /\ CallsOf(calls', "instance.request_adapter") = <<>>
                /\ CallsOf(calls', "adapter.request_device") = <<>>]_vars

\* The adapter was refused: the constructor panicked right after asking for
\* it, and the process is gone with nothing dispatched.
C19_Witness ==
    /\ build = "Renderer"
    /\ pc = "aborted"
    /\ invoked = <<Invoke("new", window_size, "panic")>>
    /\ Len(CallsOf(calls, "instance.request_adapter")) = 1
    /\ CallsOf(calls, "adapter.request_device") = <<>>
    /\ state = None
    /\ event = NoEvent


----------------------------------------------------------------------------
(* Properties of the surface configuration *)

\* C20: in every state of the struct the stored size is the width and height
\* of the surface configuration, and the configuration's format, usage and
\* Fifo present mode are those the constructor chose: the constructor
\* configures the surface with the configuration it stores, resize changes
\* only the size and the configuration's width and height, every configure
\* call carries the stored configuration, and a step that does not call
\* resize (render, input, update) changes nothing of the struct.
C20_SizeIsConfigAndRestFixed ==
    /\ [](IsSome(state) =>
             LET self == Unwrap(state)
             IN  /\ self.size.width = self.config.width
                 /\ self.size.height = self.config.height
                 /\ self.config.usage = "RENDER_ATTACHMENT"
                 /\ self.config.present_mode = "Fifo"
                 /\ self.config.format \in Formats)
    /\ [][/\ (pc = "boot" /\ pc' = "running") =>
                Configures(calls') = <<Call("surface.configure", Unwrap(state').config)>>
          /\ IsSome(state) =>
                /\ Unwrap(state').config.format = Unwrap(state).config.format
                /\ Unwrap(state').config.usage = Unwrap(state).config.usage
                /\ Unwrap(state').config.present_mode = Unwrap(state).config.present_mode
                /\ Unwrap(state').render_pipeline = Unwrap(state).render_pipeline
                /\ Unwrap(state').vbo = Unwrap(state).vbo
                /\ Unwrap(state').ibo = Unwrap(state).ibo
                /\ \A i \in 1 .. Len(Configures(calls')) :
                      Configures(calls')[i].arg = Unwrap(state').config
                /\ Invocations("resize")' = <<>> => state' = state]_vars

\* A Renderer configured for Rgba8UnormSrgb at 1x1 was resized to 2x2:
\* size and configuration are 2x2, the rest is as the constructor chose.
C20_Witness ==
    /\ build = "Renderer"
    /\ window_size = [width |-> 1, height |-> 1]
    /\ ResizeCalled(invoked)
    /\ Unwrap(state).size = [width |-> 2, height |-> 2]
    /\ Unwrap(state).config =
          [usage |-> "RENDER_ATTACHMENT", format |-> "Rgba8UnormSrgb",
           width |-> 2, height |-> 2, present_mode |-> "Fifo"]


----------------------------------------------------------------------------
(* Properties of termination *)

\* C21: a termination request is never rescinded. The closure leaves
\* *control_flow as it found it or sets it to Exit, whatever the event; so
\* once it is Exit (after a close request, an Escape press or an
\* out-of-memory frame) no later event the closure handles (a resize, a
\* redraw with any outcome, the end of the events, an event of another
\* window) makes it anything else.
C21_ExitNeverRescinded ==
    [][/\ control_flow' \in {control_flow, "Exit"}
       /\ control_flow = "Exit" => control_flow' = "Exit"]_vars

\* Termination had been requested when a redraw of the window was served
\* and drew its frame: it is requested still.
C21_Witness ==
    /\ build = "Renderer"
    /\ pc = "running"
    /\ event = Event("RedrawRequested", window_id, NoWindowEvent)
    /\ RenderCalled(invoked)
    /\ RenderRet(invoked) = "Ok"
    /\ control_flow = "Exit"


====
